---- MODULE Spec2Model ----
(***************************************************************************)
(* Rules engine of the Organ Attack card game (src/game/engine.py,         *)
(* src/game/cards.py, src/game/player.py, src/game/models.py).             *)
(*                                                                         *)
(* Representation.  Players are the indices 0..NumPlayers-1 of             *)
(* GameEngine.players, and -1 stands for "no player" (Python None).  The   *)
(* string "None" stands for an absent organ, name or card argument.        *)
(*                                                                         *)
(* deck, discard_pile and every hand are Python lists.  The engine reads   *)
(* them only through len(), `in`, list.remove(first equal element),        *)
(* append, and pop() of a list that random.shuffle has just permuted, so   *)
(* a list is modelled by the multiset of its elements (a function from     *)
(* card id to multiplicity) and deck.pop() by the choice of any card the   *)
(* deck holds: every order random.shuffle can produce is covered.          *)
(***************************************************************************)
EXTENDS Integers, Sequences, FiniteSets, TLC

(***************************************************************************)
(* Bounds of the model.  The source deals 5 cards, caps the hand at 5,     *)
(* gives every player 6 organs and builds the deck from 3 / 2 copies of    *)
(* each catalog card; the model keeps the code and scales the sizes.       *)
(***************************************************************************)
NumPlayers == 2
OrgansPerPlayer == 1
DealSize == 1
HandLimit == 1
AttackDefenseCopies == 1
OtherCopies == 1
MaxCount == 1
MaxTurns == 1
MaxEvents == 4

turn_direction == 1

None == "None"
NoPlayer == -1
Players == 0..(NumPlayers - 1)
Names == <<"Alice", "Bob", "Carol", "Dave">>
name(p) == IF p = NoPlayer THEN None ELSE Names[p + 1]
OrganType == {"Heart", "Brain"}
OrganArgs == OrganType \cup {None}
PlayerArgs == Players \cup {NoPlayer}

GameState == {"SETUP", "DRAW", "PLAY", "DEFEND", "DISCARD", "NEXT_TURN", "GAME_OVER"}

(***************************************************************************)
(* The card catalog (CardManager.all_cards).  attack_001, attack_002 and   *)
(* defense_001 are the built-in default cards; the others are catalog      *)
(* data of the Action and Wildcard kinds; action_005 and action_006 carry  *)
(* several effects, among them one the code does not implement            *)
(* (steal_organ) and one it does not know (heal_organ).                    *)
(***************************************************************************)
NoTarget == [present |-> FALSE, organ_type |-> None, player_scope |-> "Other"]
OrganTarget(o) == [present |-> TRUE, organ_type |-> o, player_scope |-> "Other"]
Effect(a, o, v) == [action |-> a, target_organ |-> o, value |-> v]

Catalog ==
    [attack_001 |-> [name |-> "Heart Attack", type |-> "Attack",
                     target |-> OrganTarget("Heart"),
                     effects |-> <<Effect("remove_organ", "Heart", 0)>>],
     attack_002 |-> [name |-> "Brain Freeze", type |-> "Attack",
                     target |-> OrganTarget("Brain"),
                     effects |-> <<Effect("remove_organ", "Brain", 0)>>],
     defense_001 |-> [name |-> "Medical Kit", type |-> "Defense",
                      target |-> NoTarget,
                      effects |-> <<Effect("block_attack", None, 0)>>],
     action_001 |-> [name |-> "Second Opinion", type |-> "Action",
                     target |-> NoTarget,
                     effects |-> <<Effect("draw_cards", None, 2)>>],
     action_002 |-> [name |-> "Vaccination", type |-> "Action",
                     target |-> NoTarget,
                     effects |-> <<Effect("protect_organ", "Heart", 0)>>],
     action_003 |-> [name |-> "Anesthesia", type |-> "Action",
                     target |-> NoTarget,
                     effects |-> <<Effect("skip_turn", None, 0)>>],
     action_004 |-> [name |-> "Bed Rest", type |-> "Action",
                     target |-> NoTarget,
                     effects |-> <<Effect("skip_turn", None, 0)>>],
     action_005 |-> [name |-> "Experimental Surgery", type |-> "Action",
                     target |-> NoTarget,
                     effects |-> <<Effect("steal_organ", None, 0),
                                   Effect("remove_organ", "Heart", 0),
                                   Effect("skip_turn", None, 0)>>],
     action_006 |-> [name |-> "Placebo", type |-> "Action",
                     target |-> NoTarget,
                     effects |-> <<Effect("heal_organ", None, 0),
                                   Effect("protect_organ", None, 0),
                                   Effect("draw_cards", None, 1)>>],
     wildcard_001 |-> [name |-> "Test Your Luck", type |-> "Wildcard",
                       target |-> NoTarget,
                       effects |-> <<Effect("test_luck", None, 0)>>]]

CardIds == DOMAIN Catalog

Copies(c) == IF Catalog[c].type \in {"Attack", "Defense"} THEN AttackDefenseCopies ELSE OtherCopies

VARIABLES
    organs,                 \* Player.organs: player -> organ type -> OrganCard status
    status,                 \* Player.status
    hand,                   \* Player.hand
    cards_played_this_turn, \* Player.cards_played_this_turn
    cards_drawn_this_turn,  \* Player.cards_drawn_this_turn
    skip_next_turn,         \* Player.skip_next_turn
    deck,                   \* GameEngine.deck
    discard_pile,           \* GameEngine.discard_pile
    game_state,             \* GameEngine.game_state
    current_player_index,   \* GameEngine.current_player_index
    turn_count,             \* GameEngine.turn_count
    winner,                 \* GameEngine.winner
    current_attack,         \* GameEngine.current_attack
    pending_defense,        \* GameEngine.pending_defense
    game_events             \* GameEngine.game_events

playerVars == <<organs, status, hand, cards_played_this_turn, cards_drawn_this_turn, skip_next_turn>>
vars == <<organs, status, hand, cards_played_this_turn, cards_drawn_this_turn, skip_next_turn,
          deck, discard_pile, game_state, current_player_index, turn_count, winner,
          current_attack, pending_defense, game_events>>

(***************************************************************************)
(* Multisets of cards.                                                     *)
(***************************************************************************)
EmptyBag == [card_id \in CardIds |-> 0]
BagAdd(b, c) == [b EXCEPT ![c] = @ + 1]
BagRemove(b, c) == [b EXCEPT ![c] = @ - 1]
RECURSIVE BagSizeOver(_, _)
BagSizeOver(b, S) ==
    IF S = {} THEN 0
    ELSE LET c == CHOOSE x \in S : TRUE IN b[c] + BagSizeOver(b, S \ {c})
BagSize(b) == BagSizeOver(b, CardIds)
RECURSIVE HandsSizeOver(_, _)
HandsSizeOver(h, S) ==
    IF S = {} THEN 0
    ELSE LET p == CHOOSE x \in S : TRUE IN BagSize(h[p]) + HandsSizeOver(h, S \ {p})

(***************************************************************************)
(* Player (src/game/player.py).  The operators work on a record st that    *)
(* holds the engine's fields under their own names (see Eng below), so     *)
(* that the steps of one call are applied one after the other as the code  *)
(* applies them.                                                           *)
(***************************************************************************)
NewOrgan(owned) ==
    [owned |-> owned, is_removed |-> FALSE, is_protected |-> FALSE,
     protection_source |-> None, can_be_protected |-> TRUE]

has_organ(org, p, o) == o \in OrganType /\ org[p][o].owned /\ ~org[p][o].is_removed

get_available_organs(org, p) == {o \in OrganType : org[p][o].owned /\ ~org[p][o].is_removed}

\* _check_elimination with the test of the remaining organs left out.
check_elimination_skipped(st, p) == st

check_elimination(st, p) ==
    IF get_available_organs(st.organs, p) = {}
    THEN [st EXCEPT !.status[p] = "eliminated"]
    ELSE st

remove_organ(st, p, o) ==
    IF has_organ(st.organs, p, o)
    THEN [st |-> check_elimination([st EXCEPT !.organs[p][o].is_removed = TRUE], p), ok |-> TRUE]
    ELSE [st |-> st, ok |-> FALSE]

protect_organ(st, p, o, source) ==
    IF has_organ(st.organs, p, o) /\ st.organs[p][o].can_be_protected
    THEN [st |-> [st EXCEPT !.organs[p][o].is_protected = TRUE,
                            !.organs[p][o].protection_source = source],
          ok |-> TRUE]
    ELSE [st |-> st, ok |-> FALSE]

\* is_organ_protected that reports no organ as protected.
is_organ_protected_never(org, p, o) == FALSE

is_organ_protected(org, p, o) == has_organ(org, p, o) /\ org[p][o].is_protected

is_eliminated(stat, p) == stat[p] = "eliminated"

\* needs_to_discard that never asks for a discard.
needs_to_discard_never(h, p) == FALSE

needs_to_discard(h, p) == BagSize(h[p]) > HandLimit

get_cards_by_type(h, p, t) == {c \in CardIds : h[p][c] > 0 /\ Catalog[c].type = t}

(***************************************************************************)
(* Deck and discard pile (GameEngine._draw_card, _reshuffle_deck,          *)
(* draw_card_for_player).  A draw has one outcome per card the deck can    *)
(* yield; drawn is "None" when deck and discard pile are both empty.       *)
(***************************************************************************)
\* _reshuffle_deck that copies the discard pile into the deck without clearing it.
reshuffle_deck_keeps_pile(st) ==
    IF BagSize(st.discard_pile) > 0
    THEN [st EXCEPT !.deck = st.discard_pile]
    ELSE st

reshuffle_deck(st) ==
    IF BagSize(st.discard_pile) > 0
    THEN [st EXCEPT !.deck = st.discard_pile, !.discard_pile = EmptyBag]
    ELSE st

\* draw_card_for_player whose _draw_card does not reshuffle an empty deck.
draw_card_for_player_no_reshuffle(st, p) ==
    IF BagSize(st.deck) > 0
    THEN {[st |-> [st EXCEPT !.deck = BagRemove(st.deck, c),
                             !.hand[p] = BagAdd(st.hand[p], c),
                             !.cards_drawn_this_turn[p] = @ + 1],
           card |-> c] : c \in {x \in CardIds : st.deck[x] > 0}}
    ELSE {[st |-> st, card |-> None]}

draw_card_for_player(st, p) ==
    LET s1 == IF BagSize(st.deck) = 0 THEN reshuffle_deck(st) ELSE st IN
    IF BagSize(s1.deck) > 0
    THEN {[st |-> [s1 EXCEPT !.deck = BagRemove(s1.deck, c),
                             !.hand[p] = BagAdd(s1.hand[p], c),
                             !.cards_drawn_this_turn[p] = @ + 1],
           card |-> c] : c \in {x \in CardIds : s1.deck[x] > 0}}
    ELSE {[st |-> s1, card |-> None]}

(***************************************************************************)
(* CardEffectProcessor (src/game/cards.py).  Every resolver yields the set *)
(* of its possible outcomes [st, result]: one outcome, except for the      *)
(* cards a draw can yield and the two sides of the coin.                   *)
(***************************************************************************)
Failure(msg) == [success |-> FALSE, error |-> msg]

\* _remove_organ_effect that uses up the protection of the organ it is blocked by.
remove_organ_effect_uses_up_protection(st, effect, p, tp, to) ==
    IF tp = NoPlayer \/ to = None
    THEN {[st |-> st, result |-> Failure("Missing target for organ removal")]}
    ELSE IF is_organ_protected(st.organs, tp, to)
    THEN {[st |-> [st EXCEPT !.organs[tp][to].is_protected = FALSE],
           result |-> [success |-> FALSE, blocked |-> TRUE, reason |-> "Organ is protected"]]}
    ELSE LET r == remove_organ(st, tp, to) IN
         {[st |-> r.st,
           result |-> [success |-> r.ok, action |-> "remove_organ",
                       target |-> to, player |-> name(tp)]]}

remove_organ_effect(st, effect, p, tp, to) ==
    IF tp = NoPlayer \/ to = None
    THEN {[st |-> st, result |-> Failure("Missing target for organ removal")]}
    ELSE IF is_organ_protected(st.organs, tp, to)
    THEN {[st |-> st,
           result |-> [success |-> FALSE, blocked |-> TRUE, reason |-> "Organ is protected"]]}
    ELSE LET r == remove_organ(st, tp, to) IN
         {[st |-> r.st,
           result |-> [success |-> r.ok, action |-> "remove_organ",
                       target |-> to, player |-> name(tp)]]}

\* _protect_organ_effect that protects the acting player's organ whatever the target.
protect_organ_effect_of_actor(st, effect, p, tp, to, c) ==
    LET organ_type == IF to # None THEN to ELSE effect.target_organ
        protection_source == IF Catalog[c].name = "Vaccination"
                             THEN "Vaccination" ELSE "Protected by " \o name(p)
    IN  IF organ_type = None
        THEN {[st |-> st, result |-> Failure("No target organ specified")]}
        ELSE LET r == protect_organ(st, p, organ_type, protection_source) IN
             {[st |-> r.st,
               result |-> [success |-> r.ok, action |-> "protect_organ",
                           target |-> organ_type, player |-> name(p)]]}

protect_organ_effect(st, effect, p, tp, to, c) ==
    LET target == IF tp # NoPlayer THEN tp ELSE p
        organ_type == IF to # None THEN to ELSE effect.target_organ
        protection_source == IF Catalog[c].name = "Vaccination"
                             THEN "Vaccination" ELSE "Protected by " \o name(p)
    IN  IF organ_type = None
        THEN {[st |-> st, result |-> Failure("No target organ specified")]}
        ELSE LET r == protect_organ(st, target, organ_type, protection_source) IN
             {[st |-> r.st,
               result |-> [success |-> r.ok, action |-> "protect_organ",
                           target |-> organ_type, player |-> name(target)]]}

block_attack_effect(st, effect, p) ==
    {[st |-> st, result |-> [success |-> TRUE, action |-> "block_attack", player |-> name(p)]]}

\* _steal_organ_effect that hands the target's organ to the acting player before it
\* reports that stealing is not implemented.
steal_organ_effect_moves_organ(st, effect, p, tp, to) ==
    IF tp = NoPlayer \/ to = None
    THEN {[st |-> st, result |-> Failure("Missing target for organ steal")]}
    ELSE {[st |-> [st EXCEPT !.organs[tp][to].owned = FALSE, !.organs[p][to].owned = TRUE],
           result |-> Failure("Organ stealing not fully implemented")]}

steal_organ_effect(st, effect, p, tp, to) ==
    IF tp = NoPlayer \/ to = None
    THEN {[st |-> st, result |-> Failure("Missing target for organ steal")]}
    ELSE {[st |-> st, result |-> Failure("Organ stealing not fully implemented")]}

\* The loop of _draw_cards_effect: n draws left, stopping at the first empty draw.
RECURSIVE draw_loop(_, _, _)
draw_loop(st, p, n) ==
    IF n = 0 THEN {st}
    ELSE UNION {IF d.card = None THEN {d.st} ELSE draw_loop(d.st, p, n - 1)
                : d \in draw_card_for_player(st, p)}

draw_cards_effect(st, effect, p) ==
    LET draw_count == IF effect.value = 0 THEN 1 ELSE effect.value IN
    {[st |-> s2,
      result |-> [success |-> TRUE, action |-> "draw_cards",
                  count |-> draw_count, player |-> name(p)]]
     : s2 \in draw_loop(st, p, draw_count)}

skip_turn_effect(st, effect, tp) ==
    IF tp # NoPlayer
    THEN {[st |-> [st EXCEPT !.skip_next_turn[tp] = TRUE],
           result |-> [success |-> TRUE, action |-> "skip_turn", player |-> name(tp)]]}
    ELSE {[st |-> st, result |-> Failure("No target player for skip turn")]}

\* _test_luck_effect that destroys the organ on either side of the coin.
test_luck_effect_either_side(st, effect, p, tp, to) ==
    IF tp # NoPlayer /\ to # None
    THEN LET r == remove_organ(st, tp, to) IN
         {[st |-> r.st,
           result |-> [success |-> TRUE, action |-> "test_luck", coin |-> coin,
                       organ_destroyed |-> r.ok, target_player |-> name(tp),
                       target_organ |-> to]] : coin \in {"heads", "tails"}}
    ELSE {[st |-> st, result |-> [success |-> TRUE, action |-> "test_luck", coin |-> coin]]
          : coin \in {"heads", "tails"}}

test_luck_effect(st, effect, p, tp, to) ==
    {[st |-> st, result |-> [success |-> TRUE, action |-> "test_luck", coin |-> "heads"]]}
    \cup
    (IF tp # NoPlayer /\ to # None
     THEN LET r == remove_organ(st, tp, to) IN
          {[st |-> r.st,
            result |-> [success |-> TRUE, action |-> "test_luck", coin |-> "tails",
                        organ_destroyed |-> r.ok, target_player |-> name(tp),
                        target_organ |-> to]]}
     ELSE {[st |-> st, result |-> [success |-> TRUE, action |-> "test_luck", coin |-> "tails"]]})

process_single_effect(st, effect, c, p, tp, to) ==
    CASE effect.action = "remove_organ" -> remove_organ_effect(st, effect, p, tp, to)
      [] effect.action = "protect_organ" -> protect_organ_effect(st, effect, p, tp, to, c)
      [] effect.action = "block_attack" -> block_attack_effect(st, effect, p)
      [] effect.action = "steal_organ" -> steal_organ_effect(st, effect, p, tp, to)
      [] effect.action = "draw_cards" -> draw_cards_effect(st, effect, p)
      [] effect.action = "skip_turn" -> skip_turn_effect(st, effect, tp)
      [] effect.action = "test_luck" -> test_luck_effect(st, effect, p, tp, to)
      [] OTHER -> {[st |-> st, result |-> Failure("Unknown action")]}

\* The loop of process_card_effects from effect i on, results collected in order.
RECURSIVE process_effects_from(_, _, _, _, _, _, _)
process_effects_from(st, results, i, c, p, tp, to) ==
    IF i > Len(Catalog[c].effects) THEN {[st |-> st, results |-> results]}
    ELSE UNION {process_effects_from(o.st, Append(results, o.result), i + 1, c, p, tp, to)
                : o \in process_single_effect(st, Catalog[c].effects[i], c, p, tp, to)}

\* process_card_effects whose loop ends at the first effect that fails.
RECURSIVE process_effects_until_failure(_, _, _, _, _, _, _)
process_effects_until_failure(st, results, i, c, p, tp, to) ==
    IF i > Len(Catalog[c].effects) THEN {[st |-> st, results |-> results]}
    ELSE UNION {IF o.result.success
                THEN process_effects_until_failure(o.st, Append(results, o.result),
                                                   i + 1, c, p, tp, to)
                ELSE {[st |-> o.st, results |-> Append(results, o.result)]}
                : o \in process_single_effect(st, Catalog[c].effects[i], c, p, tp, to)}

process_card_effects_until_failure(st, c, p, tp, to) ==
    process_effects_until_failure(st, <<>>, 1, c, p, tp, to)

process_card_effects(st, c, p, tp, to) == process_effects_from(st, <<>>, 1, c, p, tp, to)

(***************************************************************************)
(* GameEngine (src/game/engine.py).  Eng is the engine's state as one      *)
(* record; every public operation is an operator from such a record and    *)
(* the call's arguments to the set of its outcomes [st, ret], ret being    *)
(* the value the call returns.                                             *)
(***************************************************************************)
Eng ==
    [organs |-> organs, status |-> status, hand |-> hand,
     cards_played_this_turn |-> cards_played_this_turn,
     cards_drawn_this_turn |-> cards_drawn_this_turn,
     skip_next_turn |-> skip_next_turn,
     deck |-> deck, discard_pile |-> discard_pile, game_state |-> game_state,
     current_player_index |-> current_player_index, turn_count |-> turn_count,
     winner |-> winner, current_attack |-> current_attack,
     pending_defense |-> pending_defense, game_events |-> game_events]

NoAttack == [card |-> None, attacker |-> NoPlayer, target_player |-> NoPlayer, target_organ |-> None]

\* A GameEvent of the event log.  Its fields target_player, target_organ, success
\* and details copy arguments of the call and are read by no operation of the
\* engine; the model keeps the fields that identify the event.
GameEvent(event_type, player_name, card_played) ==
    [event_type |-> event_type, player_name |-> player_name, card_played |-> card_played]

\* _log_event that puts the new event in front of the log.
log_event_in_front(st, e) == [st EXCEPT !.game_events = <<e>> \o st.game_events]

log_event(st, e) == [st EXCEPT !.game_events = Append(st.game_events, e)]

discard_card(st, c) == [st EXCEPT !.discard_pile = BagAdd(st.discard_pile, c)]

\* GameEngine.players, as the indices of the per-player fields of st.
players_of(st) == DOMAIN st.status

get_active_players(st) == {p \in players_of(st) : ~is_eliminated(st.status, p)}

\* can_play_card without its first phase rule (Defense cards only while defending).
can_play_card_no_defend_rule(st, p, c, tp, to) ==
    IF st.hand[p][c] = 0 THEN "Card not in hand"
    ELSE IF st.game_state \notin {"PLAY", "DEFEND"} THEN "Cannot play cards during this phase"
    ELSE IF Catalog[c].target.present /\ Catalog[c].target.organ_type # None
            /\ to # Catalog[c].target.organ_type
    THEN "Card must target the card's organ"
    ELSE IF Catalog[c].target.present /\ Catalog[c].target.player_scope = "Other" /\ tp = p
    THEN "Cannot target yourself with this card"
    ELSE IF Catalog[c].target.present /\ tp # NoPlayer /\ to # None
            /\ ~has_organ(st.organs, tp, to)
    THEN "Target player doesn't have the organ"
    ELSE "Valid"

\* The reason can_play_card returns; "Valid" when the play is allowed.
can_play_card(st, p, c, tp, to) ==
    IF st.hand[p][c] = 0 THEN "Card not in hand"
    ELSE IF st.game_state = "DEFEND" /\ Catalog[c].type # "Defense"
    THEN "Can only play defense cards during defend phase"
    ELSE IF st.game_state \notin {"PLAY", "DEFEND"} THEN "Cannot play cards during this phase"
    ELSE IF Catalog[c].target.present /\ Catalog[c].target.organ_type # None
            /\ to # Catalog[c].target.organ_type
    THEN "Card must target the card's organ"
    ELSE IF Catalog[c].target.present /\ Catalog[c].target.player_scope = "Other" /\ tp = p
    THEN "Cannot target yourself with this card"
    ELSE IF Catalog[c].target.present /\ tp # NoPlayer /\ to # None
            /\ ~has_organ(st.organs, tp, to)
    THEN "Target player doesn't have the organ"
    ELSE "Valid"

\* _resolve_attack that forgets to put the attack card on the discard pile.
resolve_attack_keeps_card(st) ==
    IF st.current_attack = NoAttack
    THEN {[st |-> st, ret |-> [success |-> FALSE, reason |-> "No attack to resolve"]]}
    ELSE LET a == st.current_attack IN
         {[st |-> [o.st EXCEPT !.current_attack = NoAttack,
                               !.pending_defense = FALSE,
                               !.game_state = "DISCARD"],
           ret |-> [success |-> TRUE, card |-> Catalog[a.card].name,
                    target_player |-> name(a.target_player),
                    target_organ |-> a.target_organ, effects |-> o.results]]
          : o \in process_card_effects(st, a.card, a.attacker, a.target_player, a.target_organ)}

resolve_attack(st) ==
    IF st.current_attack = NoAttack
    THEN {[st |-> st, ret |-> [success |-> FALSE, reason |-> "No attack to resolve"]]}
    ELSE LET a == st.current_attack IN
         {[st |-> [discard_card(o.st, a.card) EXCEPT !.current_attack = NoAttack,
                                                     !.pending_defense = FALSE,
                                                     !.game_state = "DISCARD"],
           ret |-> [success |-> TRUE, card |-> Catalog[a.card].name,
                    target_player |-> name(a.target_player),
                    target_organ |-> a.target_organ, effects |-> o.results]]
          : o \in process_card_effects(st, a.card, a.attacker, a.target_player, a.target_organ)}

\* _handle_attack_card that never waits for a defense.
handle_attack_card_no_wait(st, c, attacker, tp, to) ==
    IF tp = NoPlayer \/ to = None
    THEN {[st |-> st,
           ret |-> [success |-> FALSE, reason |-> "Attack cards require target player and organ",
                    card |-> Catalog[c].name]]}
    ELSE resolve_attack([st EXCEPT !.current_attack =
                            [card |-> c, attacker |-> attacker,
                             target_player |-> tp, target_organ |-> to]])

handle_attack_card(st, c, attacker, tp, to) ==
    IF tp = NoPlayer \/ to = None
    THEN {[st |-> st,
           ret |-> [success |-> FALSE, reason |-> "Attack cards require target player and organ",
                    card |-> Catalog[c].name]]}
    ELSE LET s1 == [st EXCEPT !.current_attack =
                        [card |-> c, attacker |-> attacker,
                         target_player |-> tp, target_organ |-> to]]
         IN  IF get_cards_by_type(s1.hand, tp, "Defense") # {}
             THEN {[st |-> [s1 EXCEPT !.pending_defense = TRUE, !.game_state = "DEFEND"],
                    ret |-> [success |-> TRUE, card |-> Catalog[c].name,
                             awaiting_defense |-> TRUE, target_player |-> name(tp),
                             target_organ |-> to]]}
             ELSE resolve_attack(s1)

\* _handle_defense_card that leaves the blocked attack card out of the discard pile.
handle_defense_card_drops_attack(st, c, defender) ==
    IF st.current_attack = NoAttack \/ ~st.pending_defense
    THEN {[st |-> st,
           ret |-> [success |-> FALSE, reason |-> "No attack to defend against",
                    card |-> Catalog[c].name]]}
    ELSE LET a == st.current_attack
             s1 == [discard_card(st, c) EXCEPT !.pending_defense = FALSE]
             s2 == log_event(s1, GameEvent("attack_defended", name(defender), Catalog[c].name))
         IN  {[st |-> [s2 EXCEPT !.current_attack = NoAttack, !.game_state = "DISCARD"],
               ret |-> [success |-> TRUE, card |-> Catalog[c].name,
                        blocked_attack |-> Catalog[a.card].name]]}

handle_defense_card(st, c, defender) ==
    IF st.current_attack = NoAttack \/ ~st.pending_defense
    THEN {[st |-> st,
           ret |-> [success |-> FALSE, reason |-> "No attack to defend against",
                    card |-> Catalog[c].name]]}
    ELSE LET a == st.current_attack
             s1 == [discard_card(st, c) EXCEPT !.pending_defense = FALSE]
             s2 == log_event(s1, GameEvent("attack_defended", name(defender), Catalog[c].name))
         IN  {[st |-> [discard_card(s2, a.card) EXCEPT !.current_attack = NoAttack,
                                                      !.game_state = "DISCARD"],
               ret |-> [success |-> TRUE, card |-> Catalog[c].name,
                        blocked_attack |-> Catalog[a.card].name]]}

\* _handle_action_card that ends the Play phase as a resolved attack does.
handle_action_card_ends_play(st, c, p, tp, to) ==
    {[st |-> [discard_card(o.st, c) EXCEPT !.game_state = "DISCARD"],
      ret |-> [success |-> TRUE, card |-> Catalog[c].name, effects |-> o.results]]
     : o \in process_card_effects(st, c, p, tp, to)}

handle_action_card(st, c, p, tp, to) ==
    {[st |-> discard_card(o.st, c),
      ret |-> [success |-> TRUE, card |-> Catalog[c].name, effects |-> o.results]]
     : o \in process_card_effects(st, c, p, tp, to)}

handle_wildcard_card(st, c, p, tp, to) == handle_action_card(st, c, p, tp, to)

play_card(st, p, c, tp, to) ==
    LET reason == can_play_card(st, p, c, tp, to) IN
    IF reason # "Valid"
    THEN {[st |-> st, ret |-> [success |-> FALSE, reason |-> reason, card |-> Catalog[c].name]]}
    ELSE LET s1 == [st EXCEPT !.hand[p] = BagRemove(st.hand[p], c),
                              !.cards_played_this_turn[p] = @ + 1]
             s2 == log_event(s1, GameEvent("card_played", name(p), Catalog[c].name))
         IN  CASE Catalog[c].type = "Attack" -> handle_attack_card(s2, c, p, tp, to)
               [] Catalog[c].type = "Defense" -> handle_defense_card(s2, c, p)
               [] Catalog[c].type = "Action" -> handle_action_card(s2, c, p, tp, to)
               [] Catalog[c].type = "Wildcard" -> handle_wildcard_card(s2, c, p, tp, to)
               [] OTHER -> {[st |-> discard_card(o.st, c),
                             ret |-> [success |-> TRUE, card |-> Catalog[c].name,
                                      effects |-> o.results]]
                            : o \in process_card_effects(s2, c, p, tp, to)}

\* skip_defense that drops the pending attack instead of resolving it.
skip_defense_drops_attack(st) ==
    IF ~st.pending_defense
    THEN {[st |-> st, ret |-> [success |-> FALSE, reason |-> "No defense to skip"]]}
    ELSE {[st |-> [st EXCEPT !.current_attack = NoAttack, !.pending_defense = FALSE,
                             !.game_state = "DISCARD"],
           ret |-> [success |-> TRUE, card |-> Catalog[st.current_attack.card].name,
                    effects |-> <<>>]]}

skip_defense(st) ==
    IF ~st.pending_defense
    THEN {[st |-> st, ret |-> [success |-> FALSE, reason |-> "No defense to skip"]]}
    ELSE resolve_attack(st)

reset_turn_counters(st, p) ==
    [st EXCEPT !.cards_drawn_this_turn[p] = 0, !.cards_played_this_turn[p] = 0]

\* The while loop of _next_player, attempts iterations done.
RECURSIVE next_player_loop(_, _)
next_player_loop(st, attempts) ==
    IF attempts >= Cardinality(players_of(st)) THEN st
    ELSE LET i == (st.current_player_index + turn_direction) % Cardinality(players_of(st))
             s1 == [st EXCEPT !.current_player_index = i]
         IN  IF ~is_eliminated(s1.status, i)
             THEN IF s1.skip_next_turn[i]
                  THEN next_player_loop(
                           log_event([s1 EXCEPT !.skip_next_turn[i] = FALSE],
                                     GameEvent("turn_skipped", name(i), None)),
                           attempts + 1)
                  ELSE s1
             ELSE next_player_loop(s1, attempts + 1)

next_player(st) ==
    LET s1 == next_player_loop(reset_turn_counters(st, st.current_player_index), 0)
    IN  [s1 EXCEPT !.turn_count = @ + 1]

check_win_condition(st) ==
    LET active_players == get_active_players(st) IN
    IF Cardinality(active_players) <= 1
    THEN IF active_players # {}
         THEN LET w == CHOOSE p \in active_players : TRUE IN
              log_event([st EXCEPT !.game_state = "GAME_OVER", !.winner = w],
                        GameEvent("game_end", "System", None))
         ELSE log_event([st EXCEPT !.game_state = "GAME_OVER"],
                        GameEvent("game_end", "System", None))
    ELSE st

\* advance_turn that draws in DRAW whether or not the player has drawn this turn.
advance_turn_draws_always(st) ==
    LET cp == st.current_player_index IN
    CASE st.game_state = "DRAW" ->
           {check_win_condition([d.st EXCEPT !.game_state = "PLAY"])
            : d \in draw_card_for_player(st, cp)}
      [] st.game_state = "PLAY" -> {check_win_condition([st EXCEPT !.game_state = "DISCARD"])}
      [] st.game_state = "DEFEND" -> {check_win_condition(st)}
      [] st.game_state = "DISCARD" ->
           IF needs_to_discard(st.hand, cp) THEN {st}
           ELSE {check_win_condition([st EXCEPT !.game_state = "NEXT_TURN"])}
      [] st.game_state = "NEXT_TURN" ->
           {check_win_condition([next_player(st) EXCEPT !.game_state = "DRAW"])}
      [] OTHER -> {check_win_condition(st)}

advance_turn(st) ==
    LET cp == st.current_player_index IN
    CASE st.game_state = "DRAW" ->
           {check_win_condition([d.st EXCEPT !.game_state = "PLAY"])
            : d \in (IF st.cards_drawn_this_turn[cp] = 0
                     THEN draw_card_for_player(st, cp)
                     ELSE {[st |-> st, card |-> None]})}
      [] st.game_state = "PLAY" -> {check_win_condition([st EXCEPT !.game_state = "DISCARD"])}
      [] st.game_state = "DEFEND" -> {check_win_condition(st)}
      [] st.game_state = "DISCARD" ->
           IF needs_to_discard(st.hand, cp) THEN {st}
           ELSE {check_win_condition([st EXCEPT !.game_state = "NEXT_TURN"])}
      [] st.game_state = "NEXT_TURN" ->
           {check_win_condition([next_player(st) EXCEPT !.game_state = "DRAW"])}
      [] OTHER -> {check_win_condition(st)}

\* The loop of force_discard over the list cards, from its element i on.
RECURSIVE force_discard_from(_, _, _, _)
force_discard_from(st, p, cards, i) ==
    IF i > Len(cards) THEN st
    ELSE IF st.hand[p][cards[i]] > 0
    THEN force_discard_from(discard_card([st EXCEPT !.hand[p] = BagRemove(st.hand[p], cards[i])], cards[i]),
                            p, cards, i + 1)
    ELSE force_discard_from(st, p, cards, i + 1)

force_discard(st, p, cards) ==
    LET s1 == force_discard_from(st, p, cards, 1) IN
    [st |-> s1, ret |-> ~needs_to_discard(s1.hand, p)]

(***************************************************************************)
(* Saving and loading (GameEngine.save_game, load_game and SaveManager in  *)
(* src/utils/save_manager.py).  A save file is the record json.dump writes *)
(* and json.load reads back: the values saved are strings, numbers,        *)
(* booleans and lists and dictionaries of them, which the two conversions  *)
(* return as they were, so a file is modelled by that record; the time     *)
(* stamp of its metadata is left out.  A hand is saved as the list of its  *)
(* cards' ids and names, modelled like the hand itself.                    *)
(***************************************************************************)
\* The dictionary game_data that GameEngine.save_game builds.
save_game(st) ==
    [players |->
         [p \in players_of(st) |->
              [name |-> name(p),
               organs |-> [o \in {x \in OrganType : st.organs[p][x].owned} |->
                               [is_removed |-> st.organs[p][o].is_removed,
                                is_protected |-> st.organs[p][o].is_protected,
                                protection_source |-> st.organs[p][o].protection_source]],
               hand |-> st.hand[p],
               status |-> st.status[p],
               skip_next_turn |-> st.skip_next_turn[p]]],
     current_player_index |-> st.current_player_index,
     game_state |-> st.game_state,
     turn_direction |-> turn_direction,
     turn_count |-> st.turn_count,
     deck_size |-> BagSize(st.deck),
     discard_size |-> BagSize(st.discard_pile),
     game_events |-> st.game_events]

\* The file SaveManager.save_game writes for game_data.
save_file(game_data) ==
    [metadata |-> [version |-> "1.0", game_type |-> "organ_attack"], game_data |-> game_data]

\* A file name under which nothing is saved.
NoFile == [missing |-> TRUE]

\* save_data.get("game_data", save_data)
game_data_of(save_data) ==
    IF "game_data" \in DOMAIN save_data THEN save_data.game_data ELSE save_data

validate_save_data(save_data) ==
    {"players", "current_player_index", "game_state"} \subseteq DOMAIN game_data_of(save_data)

\* SaveManager.load_game returns game data exactly for the files that pass here.
manager_loads(file) == file # NoFile /\ validate_save_data(file)

\* GameEngine.load_game: the fields are assigned one after the other, and a missing
\* key or a name that is no member of GameState raises, which ends the call with
\* the value False after the assignments made so far.  The files considered carry
\* the engine's own turn_direction, if any.
load_game(st, file) ==
    IF ~manager_loads(file) THEN [st |-> st, ret |-> FALSE]
    ELSE LET game_data == game_data_of(file)
             s1 == [st EXCEPT !.current_player_index = game_data.current_player_index]
         IN  IF game_data.game_state \notin GameState THEN [st |-> s1, ret |-> FALSE]
             ELSE LET s2 == [s1 EXCEPT !.game_state = game_data.game_state] IN
                  IF "turn_direction" \notin DOMAIN game_data THEN [st |-> s2, ret |-> FALSE]
                  ELSE IF "turn_count" \notin DOMAIN game_data THEN [st |-> s2, ret |-> FALSE]
                  ELSE [st |-> [s2 EXCEPT !.turn_count = game_data.turn_count], ret |-> TRUE]

(***************************************************************************)
(* Construction: GameEngine.__init__ and _initialize_game.                 *)
(***************************************************************************)
\* Player._initialize_organs: every player holds a random sample of
\* OrgansPerPlayer organ types, each organ new.
PlayerOrgans ==
    {f \in [OrganType -> {NewOrgan(TRUE), NewOrgan(FALSE)}] :
        Cardinality({o \in OrganType : f[o].owned}) = OrgansPerPlayer}
OrganDeals == [Players -> PlayerOrgans]

\* The deck built from the catalog cards `cards`, before it is shuffled.
BuildDeck(cards) == [card_id \in CardIds |-> IF card_id \in cards THEN Copies(card_id) ELSE 0]

\* _draw_card followed by add_card_to_hand, n times for player p.
RECURSIVE deal_to(_, _, _)
deal_to(st, p, n) ==
    IF n = 0 \/ BagSize(st.deck) = 0 THEN {st}
    ELSE UNION {deal_to([st EXCEPT !.deck = BagRemove(st.deck, c),
                                   !.hand[p] = BagAdd(st.hand[p], c)], p, n - 1)
                : c \in {x \in CardIds : st.deck[x] > 0}}

RECURSIVE deal_from(_, _)
deal_from(st, p) ==
    IF p >= Cardinality(players_of(st)) THEN {st}
    ELSE UNION {deal_from(s1, p + 1) : s1 \in deal_to(st, p, DealSize)}

\* The fields as GameEngine.__init__ and Player.__init__ set them.
NewPlayers ==
    [status |-> [player \in Players |-> "active"],
     hand |-> [player \in Players |-> EmptyBag],
     cards_played_this_turn |-> [player \in Players |-> 0],
     cards_drawn_this_turn |-> [player \in Players |-> 0],
     skip_next_turn |-> [player \in Players |-> FALSE]]

\* __init__ and _initialize_game for the players whose fresh fields are `fresh` and
\* whose organs are one of organ_deals, with the deck full_deck before the deal.
initialize_from(organ_deals, fresh, full_deck) ==
    {log_event([s1 EXCEPT !.current_player_index = start, !.game_state = "DRAW"],
               GameEvent("game_start", "System", None))
     : s1 \in UNION {deal_from(
                 [organs |-> organ_deal,
                  status |-> fresh.status,
                  hand |-> fresh.hand,
                  cards_played_this_turn |-> fresh.cards_played_this_turn,
                  cards_drawn_this_turn |-> fresh.cards_drawn_this_turn,
                  skip_next_turn |-> fresh.skip_next_turn,
                  deck |-> full_deck, discard_pile |-> EmptyBag,
                  game_state |-> "SETUP", current_player_index |-> 0, turn_count |-> 0,
                  winner |-> NoPlayer, current_attack |-> NoAttack,
                  pending_defense |-> FALSE, game_events |-> <<>>], 0)
                     : organ_deal \in organ_deals},
       start \in DOMAIN fresh.status}

initialize_game(full_deck) == initialize_from(OrganDeals, NewPlayers, full_deck)

IsEng(st) ==
    /\ organs = st.organs
    /\ status = st.status
    /\ hand = st.hand
    /\ cards_played_this_turn = st.cards_played_this_turn
    /\ cards_drawn_this_turn = st.cards_drawn_this_turn
    /\ skip_next_turn = st.skip_next_turn
    /\ deck = st.deck
    /\ discard_pile = st.discard_pile
    /\ game_state = st.game_state
    /\ current_player_index = st.current_player_index
    /\ turn_count = st.turn_count
    /\ winner = st.winner
    /\ current_attack = st.current_attack
    /\ pending_defense = st.pending_defense
    /\ game_events = st.game_events

\* The catalog the games of Spec are played with, and the deck built from it.
GameCards == {"attack_001", "defense_001", "action_001", "wildcard_001"}
GameDeck == BuildDeck(GameCards)

Init == \E st \in initialize_game(GameDeck) : IsEng(st)

(***************************************************************************)
(* The actions: one per public operation, over every argument.  A call     *)
(* whose outcome is the state it started from is a stuttering step, which  *)
(* [Next]_vars allows already, so Becomes takes the outcomes that change   *)
(* the state; it takes them only while they stay within the bounds on the  *)
(* per-turn counters, the turn counter and the event log.                  *)
(***************************************************************************)
WithinBounds(st) ==
    /\ \A p \in Players : st.cards_played_this_turn[p] <= MaxCount
                          /\ st.cards_drawn_this_turn[p] <= MaxCount
    /\ st.turn_count <= MaxTurns
    /\ Len(st.game_events) <= MaxEvents

\* The engine's fields take the values they have in st.
Assigns(st) ==
    /\ organs' = st.organs
    /\ status' = st.status
    /\ hand' = st.hand
    /\ cards_played_this_turn' = st.cards_played_this_turn
    /\ cards_drawn_this_turn' = st.cards_drawn_this_turn
    /\ skip_next_turn' = st.skip_next_turn
    /\ deck' = st.deck
    /\ discard_pile' = st.discard_pile
    /\ game_state' = st.game_state
    /\ current_player_index' = st.current_player_index
    /\ turn_count' = st.turn_count
    /\ winner' = st.winner
    /\ current_attack' = st.current_attack
    /\ pending_defense' = st.pending_defense
    /\ game_events' = st.game_events

Becomes(st) == st # Eng /\ WithinBounds(st) /\ Assigns(st)

\* The cards play_card and force_discard are called with (a card of the game that
\* the player does not hold stands for every card that is not in the hand), and
\* the lists force_discard is called with.
CardArgs == GameCards
DiscardLists == {<<>>} \cup {<<c>> : c \in CardArgs} \cup {<<c, d>> : c, d \in CardArgs}

PlayCard == \E p \in Players, c \in CardArgs, tp \in PlayerArgs, to \in OrganArgs :
                \E o \in play_card(Eng, p, c, tp, to) : Becomes(o.st)

SkipDefense == \E o \in skip_defense(Eng) : Becomes(o.st)

AdvanceTurn == \E s2 \in advance_turn(Eng) : Becomes(s2)

ForceDiscard == \E p \in Players, cards \in DiscardLists :
                    \E o \in {force_discard(Eng, p, cards)} : Becomes(o.st)

Next == PlayCard \/ SkipDefense \/ AdvanceTurn \/ ForceDiscard

Spec == Init /\ [][Next]_vars

(***************************************************************************)
(* A second game, played with the cards that protect an organ and that     *)
(* make a player skip a turn.                                              *)
(***************************************************************************)
CareCards == {"attack_001", "defense_001", "action_002", "action_003"}
CareDeck == BuildDeck(CareCards)

InitCare == \E st \in initialize_game(CareDeck) : IsEng(st)

CareDiscardLists == {<<>>} \cup {<<c>> : c \in CareCards} \cup {<<c, d>> : c, d \in CareCards}

PlayCareCard == \E p \in Players, c \in CareCards, tp \in PlayerArgs, to \in OrganArgs :
                    \E o \in play_card(Eng, p, c, tp, to) : Becomes(o.st)

ForceCareDiscard == \E p \in Players, cards \in CareDiscardLists :
                        \E o \in {force_discard(Eng, p, cards)} : Becomes(o.st)

NextCare == PlayCareCard \/ SkipDefense \/ AdvanceTurn \/ ForceCareDiscard

SpecCare == InitCare /\ [][NextCare]_vars

(***************************************************************************)
(* A third game, of RotationPlayers players, played with the Wildcard card *)
(* and two cards that make a player skip a turn.  No card of it is an      *)
(* Attack card, so no attack is ever pending and skip_defense, which then  *)
(* returns failure and changes nothing, is left out of its steps.  It runs *)
(* for MaxRotations turns.                                                 *)
(***************************************************************************)
RotationPlayers == 3
MaxRotations == 1
MaxTrioEvents == 6

TrioPlayers == 0..(RotationPlayers - 1)
TrioCards == {"wildcard_001", "action_003", "action_004"}
TrioDeck == BuildDeck(TrioCards)
\* Of the organ draws of __init__, the ones that give every player the Heart.
TrioOrganDeals ==
    {organ_deal \in [TrioPlayers -> PlayerOrgans] :
        \A player \in TrioPlayers : organ_deal[player]["Heart"].owned}
NewTrio ==
    [status |-> [player \in TrioPlayers |-> "active"],
     hand |-> [player \in TrioPlayers |-> EmptyBag],
     cards_played_this_turn |-> [player \in TrioPlayers |-> 0],
     cards_drawn_this_turn |-> [player \in TrioPlayers |-> 0],
     skip_next_turn |-> [player \in TrioPlayers |-> FALSE]]

\* The game starts from the shuffle that deals the Wildcard card to the first
\* player and one of the two other cards to each of the others; any player may start.
TrioDeal(st) ==
    /\ st.hand[0]["wildcard_001"] = 1
    /\ st.hand[1]["action_003"] = 1
    /\ st.hand[2]["action_004"] = 1

InitTrio ==
    \E st \in initialize_from(TrioOrganDeals, NewTrio, TrioDeck) : TrioDeal(st) /\ IsEng(st)

TrioBecomes(st) ==
    /\ st # Eng
    /\ \A p \in TrioPlayers : st.cards_played_this_turn[p] <= MaxCount
                              /\ st.cards_drawn_this_turn[p] <= MaxCount
    /\ st.turn_count <= MaxRotations
    /\ Len(st.game_events) <= MaxTrioEvents
    /\ Assigns(st)

PlayTrioCard ==
    \E p \in TrioPlayers, c \in TrioCards, tp \in TrioPlayers \cup {NoPlayer}, to \in OrganArgs :
        \E o \in play_card(Eng, p, c, tp, to) : TrioBecomes(o.st)

AdvanceTrioTurn == \E s2 \in advance_turn(Eng) : TrioBecomes(s2)

ForceTrioDiscard ==
    \E p \in TrioPlayers, c \in TrioCards :
        \E o \in {force_discard(Eng, p, <<c>>)} : TrioBecomes(o.st)

NextTrio == PlayTrioCard \/ AdvanceTrioTurn \/ ForceTrioDiscard

SpecTrio == InitTrio /\ [][NextTrio]_vars

(***************************************************************************)
(* A fourth game, played with the two cards that carry several effects.    *)
(* Neither is an Attack card, so skip_defense is left out as in the third. *)
(***************************************************************************)
EffectCards == {"action_005", "action_006"}
EffectDeck == BuildDeck(EffectCards)

InitEffects == \E st \in initialize_game(EffectDeck) : IsEng(st)

PlayEffectCard == \E p \in Players, c \in EffectCards, tp \in PlayerArgs, to \in OrganArgs :
                      \E o \in play_card(Eng, p, c, tp, to) : Becomes(o.st)

ForceEffectDiscard == \E p \in Players, c \in EffectCards :
                          \E o \in {force_discard(Eng, p, <<c>>)} : Becomes(o.st)

NextEffects == PlayEffectCard \/ AdvanceTurn \/ ForceEffectDiscard

SpecEffects == InitEffects /\ [][NextEffects]_vars

(***************************************************************************)
(* A fifth game, played with the Placebo card alone, and its save files.   *)
(* The files on disk are the saves of the games that have just been set up *)
(* with the Heart as every player's organ (each written by save_game) and, *)
(* for each, the copies that lack                                          *)
(* turn_count, that lack turn_direction and turn_count, and that name a    *)
(* phase the engine does not know; and the saves that a game of Heart      *)
(* Attack and Medical Kit wrote while an attack was pending.  save_game    *)
(* itself changes no field of the engine.                                  *)
(***************************************************************************)
SaveCards == {"action_006"}
SaveDeck == BuildDeck(SaveCards)

InitSave == \E st \in initialize_game(SaveDeck) : IsEng(st)

PlaySaveCard == \E p \in Players, c \in SaveCards, tp \in PlayerArgs, to \in OrganArgs :
                    \E o \in play_card(Eng, p, c, tp, to) : Becomes(o.st)

ForceSaveDiscard == \E p \in Players, c \in SaveCards :
                        \E o \in {force_discard(Eng, p, <<c>>)} : Becomes(o.st)

SavedGames ==
    {save_file(save_game(st))
     : st \in {x \in initialize_game(SaveDeck) : \A p \in Players : x.organs[p]["Heart"].owned}}

without_turn_count(file) ==
    [metadata |-> file.metadata,
     game_data |-> [players |-> file.game_data.players,
                    current_player_index |-> file.game_data.current_player_index,
                    game_state |-> file.game_data.game_state,
                    turn_direction |-> file.game_data.turn_direction,
                    deck_size |-> file.game_data.deck_size,
                    discard_size |-> file.game_data.discard_size,
                    game_events |-> file.game_data.game_events]]

without_turn_direction(file) ==
    [metadata |-> file.metadata,
     game_data |-> [players |-> file.game_data.players,
                    current_player_index |-> file.game_data.current_player_index,
                    game_state |-> file.game_data.game_state,
                    deck_size |-> file.game_data.deck_size,
                    discard_size |-> file.game_data.discard_size,
                    game_events |-> file.game_data.game_events]]

with_unknown_phase(file) ==
    [metadata |-> file.metadata,
     game_data |-> [file.game_data EXCEPT !.game_state = "PAUSED"]]

\* The saves of games of Heart Attack and Medical Kit in which the starting player
\* has drawn and attacked and the target has yet to defend (every player owns the
\* Heart): save_game writes the phase DEFEND and leaves out the pending attack.
DefendSaves ==
    {save_file(save_game(o.st))
     : o \in {x \in UNION {UNION {play_card(s1, s1.current_player_index, "attack_001", q, "Heart")
                                  : s1 \in advance_turn(s0), q \in Players}
                           : s0 \in {y \in initialize_game(BuildDeck({"attack_001", "defense_001"}))
                                       : \A p \in Players : y.organs[p]["Heart"].owned}}
               : x.st.game_state = "DEFEND"}}

DamagedFiles ==
    {without_turn_count(file) : file \in SavedGames}
    \cup {without_turn_direction(file) : file \in SavedGames}
    \cup {with_unknown_phase(file) : file \in SavedGames}

SaveFiles == SavedGames \cup DefendSaves \cup DamagedFiles \cup {NoFile}

LoadGame == \E file \in SaveFiles : \E o \in {load_game(Eng, file)} : Becomes(o.st)

NextSave == PlaySaveCard \/ AdvanceTurn \/ ForceSaveDiscard \/ LoadGame

SpecSave == InitSave /\ [][NextSave]_vars

(***************************************************************************)
(* A sixth game, played with Vaccination, Heart Attack and Test Your Luck  *)
(* for MaxVaccineTurns turns, long enough for every player's turn to come  *)
(* round again.  No player is dealt a Defense card, so no attack is ever   *)
(* left pending and skip_defense is left out of its steps.                 *)
(***************************************************************************)
MaxVaccineTurns == 2

VaccineCards == {"action_002", "attack_001", "wildcard_001"}

InitVaccine == \E st \in initialize_game(BuildDeck(VaccineCards)) : IsEng(st)

VaccineBecomes(st) ==
    /\ st # Eng
    /\ \A p \in Players : st.cards_played_this_turn[p] <= MaxCount
                          /\ st.cards_drawn_this_turn[p] <= MaxCount
    /\ st.turn_count <= MaxVaccineTurns
    /\ Len(st.game_events) <= MaxEvents
    /\ Assigns(st)

PlayVaccineCard ==
    \E p \in Players, c \in VaccineCards, tp \in PlayerArgs, to \in OrganArgs :
        \E o \in play_card(Eng, p, c, tp, to) : VaccineBecomes(o.st)

AdvanceVaccineTurn == \E s2 \in advance_turn(Eng) : VaccineBecomes(s2)

ForceVaccineDiscard ==
    \E p \in Players, c \in VaccineCards :
        \E o \in {force_discard(Eng, p, <<c>>)} : VaccineBecomes(o.st)

NextVaccine == PlayVaccineCard \/ AdvanceVaccineTurn \/ ForceVaccineDiscard

SpecVaccine == InitVaccine /\ [][NextVaccine]_vars

(***************************************************************************)
(* A seventh game, played with Heart Attack and one Medical Kit more than  *)
(* the other games hold, so that two players can hold a Defense card at    *)
(* the same time.  Its operations are those of the first game.             *)
(***************************************************************************)
DefenseDeck ==
    [BuildDeck({"attack_001", "defense_001"}) EXCEPT !["defense_001"] = AttackDefenseCopies + 1]

InitDefense == \E st \in initialize_game(DefenseDeck) : IsEng(st)

SpecDefense == InitDefense /\ [][Next]_vars

(***************************************************************************)
(* An eighth game, played with five Action cards, Second Opinion among     *)
(* them, in which a player may draw MaxHandDraws cards in one turn, as the *)
(* two draws of Second Opinion need.                                       *)
(***************************************************************************)
MaxHandDraws == 2

HandCards == {"action_001", "action_002", "action_003", "action_004", "action_006"}

\* The game starts from the organ draw that gives every player the Heart and the
\* shuffle that deals Vaccination to the first player and Second Opinion to the
\* second; either player may start.
HandDeal(st) ==
    /\ \A p \in Players : st.organs[p]["Heart"].owned
    /\ st.hand[0]["action_002"] = 1
    /\ st.hand[1]["action_001"] = 1

InitHands == \E st \in initialize_game(BuildDeck(HandCards)) : HandDeal(st) /\ IsEng(st)

HandsBecomes(st) ==
    /\ st # Eng
    /\ \A p \in Players : st.cards_played_this_turn[p] <= MaxCount
                          /\ st.cards_drawn_this_turn[p] <= MaxHandDraws
    /\ st.turn_count <= MaxTurns
    /\ Len(st.game_events) <= MaxEvents
    /\ Assigns(st)

PlayHandCard ==
    \E p \in Players, c \in HandCards, tp \in PlayerArgs, to \in OrganArgs :
        \E o \in play_card(Eng, p, c, tp, to) : HandsBecomes(o.st)

AdvanceHandTurn == \E s2 \in advance_turn(Eng) : HandsBecomes(s2)

ForceHandDiscard ==
    \E p \in Players, c \in HandCards :
        \E o \in {force_discard(Eng, p, <<c>>)} : HandsBecomes(o.st)

NextHands == PlayHandCard \/ AdvanceHandTurn \/ ForceHandDiscard

SpecHands == InitHands /\ [][NextHands]_vars

(***************************************************************************)
(* Properties.  A property of one call is stated over every argument and   *)
(* every outcome of the call from the current state Eng.                   *)
(***************************************************************************)
\* The invariant of card conservation: the cards of deck, discard pile and hands.
TotalCards(st) == BagSize(st.deck) + BagSize(st.discard_pile) + HandsSizeOver(st.hand, Players)

\* C1: in every reachable state and for every player, the player has no organ left
\* (none that is not removed) if and only if the player's status is eliminated.
C1_EliminatedIffNoOrgans ==
    \A p \in Players :
        (Cardinality(get_available_organs(organs, p)) = 0) <=> is_eliminated(status, p)

\* A player has lost every organ and is eliminated while another still plays.
C1_Witness ==
    \E p, q \in Players :
        /\ get_available_organs(organs, p) = {} /\ is_eliminated(status, p)
        /\ get_available_organs(organs, q) # {} /\ ~is_eliminated(status, q)

\* C2: in every reachable state the deck, the discard pile and the hands hold
\* together as many cards as right after setup (the whole deck that was built).
C2_CardCountConstant == TotalCards(Eng) = BagSize(GameDeck)

\* C3: every play_card call that returns success = false leaves the whole state
\* (hands, counters, deck, discard pile, phase, pending attack, event log) as it was,
\* for every player, card, target player and target organ, absent targets included.
C3_RejectedPlayChangesNothing ==
    \A p \in Players, c \in CardArgs, tp \in PlayerArgs, to \in OrganArgs :
        \A o \in play_card(Eng, p, c, tp, to) : ~o.ret.success => o.st = Eng

\* C4: for every player holding a Defense card, in every phase other than DEFEND,
\* can_play_card rejects the play of that card.
C4_DefenseOnlyInDefend ==
    \A p \in Players, c \in CardArgs, tp \in PlayerArgs, to \in OrganArgs :
        (hand[p][c] > 0 /\ Catalog[c].type = "Defense" /\ game_state # "DEFEND")
            => can_play_card(Eng, p, c, tp, to) # "Valid"

\* C5: can_play_card accepts a card of a kind other than Defense only in phase PLAY:
\* held by the player in any other phase, it is rejected.
C5_OtherKindsOnlyInPlay ==
    \A p \in Players, c \in CardArgs, tp \in PlayerArgs, to \in OrganArgs :
        /\ (Catalog[c].type # "Defense" /\ can_play_card(Eng, p, c, tp, to) = "Valid")
               => game_state = "PLAY"
        /\ (Catalog[c].type # "Defense" /\ hand[p][c] > 0 /\ game_state # "PLAY")
               => can_play_card(Eng, p, c, tp, to) # "Valid"

\* An attack is pending and a player holds a card that is no Defense card.
C5_Witness ==
    /\ game_state = "DEFEND"
    /\ \E p \in Players, c \in CardArgs : hand[p][c] > 0 /\ Catalog[c].type # "Defense"

\* The arguments and the state of an Attack play that can_play_card accepts in
\* phase PLAY, with a target player and a target organ.
AttackAccepted(p, c, tp, to) ==
    /\ Catalog[c].type = "Attack"
    /\ game_state = "PLAY"
    /\ tp # NoPlayer /\ to # None
    /\ can_play_card(Eng, p, c, tp, to) = "Valid"

\* C6: an Attack card accepted in PLAY against a target holding no Defense card is
\* resolved by the same call: the phase is DISCARD (never DEFEND), the attack card
\* has left the hand for the discard pile, no attack is pending, and the target
\* organ, present and unprotected, is removed.
C6_UndefendedAttackResolvesAtOnce ==
    \A p \in Players, c \in CardArgs, tp \in PlayerArgs, to \in OrganArgs :
        (AttackAccepted(p, c, tp, to) /\ get_cards_by_type(hand, tp, "Defense") = {})
            => \A o \in play_card(Eng, p, c, tp, to) :
                   /\ o.ret.success
                   /\ o.st.game_state = "DISCARD"
                   /\ o.st.hand[p] = BagRemove(hand[p], c)
                   /\ o.st.discard_pile = BagAdd(discard_pile, c)
                   /\ o.st.current_attack = NoAttack /\ ~o.st.pending_defense
                   /\ (has_organ(organs, tp, to) /\ ~is_organ_protected(organs, tp, to))
                          => o.st.organs[tp][to].is_removed

\* An accepted attack on a player without Defense card that removes the organ.
C6_Witness ==
    \E p \in Players, c \in CardArgs, tp \in Players, to \in OrganType :
        /\ AttackAccepted(p, c, tp, to) /\ get_cards_by_type(hand, tp, "Defense") = {}
        /\ has_organ(organs, tp, to) /\ ~is_organ_protected(organs, tp, to)
        /\ \E o \in play_card(Eng, p, c, tp, to) :
               o.st.organs[tp][to].is_removed /\ o.st.game_state = "DISCARD"

\* C7: an Attack card accepted in PLAY against a target holding a Defense card opens
\* the pending attack (card, attacker, target player, target organ), moves the
\* phase to DEFEND and changes no organ of any player.
C7_DefendableAttackOpensPending ==
    \A p \in Players, c \in CardArgs, tp \in PlayerArgs, to \in OrganArgs :
        (AttackAccepted(p, c, tp, to) /\ get_cards_by_type(hand, tp, "Defense") # {})
            => \A o \in play_card(Eng, p, c, tp, to) :
                   /\ o.ret.success
                   /\ o.st.current_attack = [card |-> c, attacker |-> p,
                                             target_player |-> tp, target_organ |-> to]
                   /\ o.st.pending_defense
                   /\ o.st.game_state = "DEFEND"
                   /\ o.st.organs = organs /\ o.st.status = status

\* An accepted attack on a player who holds a Defense card.
C7_Witness ==
    \E p \in Players, c \in CardArgs, tp \in Players, to \in OrganType :
        /\ AttackAccepted(p, c, tp, to) /\ get_cards_by_type(hand, tp, "Defense") # {}
        /\ \E o \in play_card(Eng, p, c, tp, to) : o.st.game_state = "DEFEND"

\* The arguments and the state of a Defense play made in phase DEFEND while an
\* attack is pending.
DefensePlayed(p, c, tp, to) ==
    /\ Catalog[c].type = "Defense"
    /\ game_state = "DEFEND"
    /\ current_attack # NoAttack /\ pending_defense
    /\ can_play_card(Eng, p, c, tp, to) = "Valid"

\* C8: a Defense card played in DEFEND with an attack pending blocks it: the defense
\* card and the pending attack card both go to the discard pile, the pending attack
\* is cleared, the phase is DISCARD, no organ changes and the attacked organ is
\* still present.
C8_DefenseBlocks ==
    \A p \in Players, c \in CardArgs, tp \in PlayerArgs, to \in OrganArgs :
        DefensePlayed(p, c, tp, to)
            => \A o \in play_card(Eng, p, c, tp, to) :
                   /\ o.ret.success
                   /\ o.st.hand[p] = BagRemove(hand[p], c)
                   /\ o.st.discard_pile = BagAdd(BagAdd(discard_pile, c), current_attack.card)
                   /\ o.st.current_attack = NoAttack /\ ~o.st.pending_defense
                   /\ o.st.game_state = "DISCARD"
                   /\ o.st.organs = organs /\ o.st.status = status
                   /\ has_organ(o.st.organs, current_attack.target_player,
                                current_attack.target_organ)

\* The attacked player plays a Defense card against the pending attack.
C8_Witness ==
    \E c \in CardArgs, tp \in PlayerArgs, to \in OrganArgs :
        /\ current_attack # NoAttack
        /\ DefensePlayed(current_attack.target_player, c, tp, to)
        /\ \E o \in play_card(Eng, current_attack.target_player, c, tp, to) :
               o.st.game_state = "DISCARD" /\ o.st.discard_pile[c] > 0

\* C9: skip_defense with an attack pending resolves it through the effect processor
\* against the recorded target (so an unprotected target organ is removed), discards
\* the attack card, clears the pending attack and moves the phase to DISCARD;
\* without a pending defense it returns failure and changes nothing.
C9_SkipDefense ==
    \A o \in skip_defense(Eng) :
        IF pending_defense /\ current_attack # NoAttack
        THEN LET a == current_attack IN
             /\ o.ret.success
             /\ \E e \in process_card_effects(Eng, a.card, a.attacker,
                                              a.target_player, a.target_organ) :
                    /\ o.ret.effects = e.results
                    /\ o.st.organs = e.st.organs /\ o.st.status = e.st.status
             /\ ~is_organ_protected(organs, a.target_player, a.target_organ)
                    => ~has_organ(o.st.organs, a.target_player, a.target_organ)
             /\ o.st.discard_pile = BagAdd(discard_pile, a.card)
             /\ o.st.current_attack = NoAttack /\ ~o.st.pending_defense
             /\ o.st.game_state = "DISCARD"
        ELSE ~pending_defense /\ ~o.ret.success /\ o.st = Eng

\* An attack is pending on an organ that skip_defense removes.
C9_Witness ==
    /\ pending_defense /\ current_attack # NoAttack
    /\ has_organ(organs, current_attack.target_player, current_attack.target_organ)
    /\ \E o \in skip_defense(Eng) :
           /\ o.st.organs[current_attack.target_player][current_attack.target_organ].is_removed
           /\ o.st.game_state = "DISCARD"

\* C10: in every reachable state an attack is pending (current_attack is set and
\* pending_defense is true) if and only if the phase is DEFEND.
C10_PendingIffDefend ==
    (current_attack # NoAttack /\ pending_defense) <=> (game_state = "DEFEND")

\* C11: in every state reached by a public operation, when at most one player is
\* not eliminated the phase is GAME_OVER.
C11_WinCheckAfterEveryOperation ==
    Cardinality(get_active_players(Eng)) <= 1 => game_state = "GAME_OVER"

\* C12: once the phase is GAME_OVER no operation changes the phase, the winner, the
\* organs, the status of a player, the current player index or the turn counter.
C12_GameOverAbsorbing ==
    [][game_state = "GAME_OVER" =>
          /\ game_state' = "GAME_OVER"
          /\ winner' = winner
          /\ organs' = organs /\ status' = status
          /\ current_player_index' = current_player_index
          /\ turn_count' = turn_count]_vars

\* C13: in every reachable state the winner is set only in phase GAME_OVER and is
\* then the one player who is not eliminated; in GAME_OVER with every player
\* eliminated no winner is set.
C13_WinnerIsSoleSurvivor ==
    /\ winner # NoPlayer =>
           /\ game_state = "GAME_OVER"
           /\ ~is_eliminated(status, winner)
           /\ get_active_players(Eng) = {winner}
    /\ (game_state = "GAME_OVER" /\ get_active_players(Eng) = {}) => winner = NoPlayer

\* The remove_organ effects of the catalog cards.
RemoveEffects ==
    {Catalog[c].effects[i] : c \in CardIds, i \in 1..1} \cap
    {Effect("remove_organ", o, 0) : o \in OrganArgs}

\* C14: a remove_organ effect aimed at a present, protected organ returns
\* success = false with blocked = true and changes nothing: the organ is not
\* removed, stays protected, and its owner's status is as before.
C14_ProtectedOrganNotRemoved ==
    \A p \in Players, tp \in Players, to \in OrganType, effect \in RemoveEffects :
        (has_organ(organs, tp, to) /\ organs[tp][to].is_protected)
            => \A o \in remove_organ_effect(Eng, effect, p, tp, to) :
                   /\ o.result = [success |-> FALSE, blocked |-> TRUE,
                                  reason |-> "Organ is protected"]
                   /\ ~o.st.organs[tp][to].is_removed
                   /\ o.st.organs[tp][to].is_protected
                   /\ o.st.status[tp] = status[tp]
                   /\ o.st = Eng

\* A player holds the Heart, protected, and another player holds the Heart Attack.
C14_Witness ==
    \E p, tp \in Players :
        /\ p # tp /\ hand[p]["attack_001"] > 0 /\ game_state = "PLAY"
        /\ has_organ(organs, tp, "Heart") /\ organs[tp]["Heart"].is_protected
        /\ \E o \in remove_organ_effect(Eng, Catalog["attack_001"].effects[1], p, tp, "Heart") :
               o.result.success = FALSE /\ o.st = Eng

\* C15: a draw reshuffles only when the deck is empty and the discard pile is not;
\* right after the reshuffle the discard pile is empty and the deck is the multiset
\* of cards the discard pile held (so of the same size), from which the card is drawn.
C15_ReshuffleOnlyOnEmptyDeck ==
    \A p \in Players : \A d \in draw_card_for_player(Eng, p) :
        /\ d.st.discard_pile # discard_pile
               => BagSize(deck) = 0 /\ BagSize(discard_pile) > 0
        /\ BagSize(deck) > 0
               => d.st.discard_pile = discard_pile /\ BagAdd(d.st.deck, d.card) = deck
        /\ (BagSize(deck) = 0 /\ BagSize(discard_pile) > 0)
               => /\ reshuffle_deck(Eng).discard_pile = EmptyBag
                  /\ reshuffle_deck(Eng).deck = discard_pile
                  /\ BagSize(reshuffle_deck(Eng).deck) = BagSize(discard_pile)
                  /\ d.card # None
                  /\ d.st.discard_pile = EmptyBag
                  /\ BagAdd(d.st.deck, d.card) = discard_pile

\* The deck is empty, cards are discarded, and a draw takes a card of the discard pile.
C15_Witness ==
    /\ BagSize(deck) = 0 /\ BagSize(discard_pile) > 0
    /\ \E p \in Players : \E d \in draw_card_for_player(Eng, p) :
           d.card # None /\ discard_pile[d.card] > 0 /\ d.st.discard_pile = EmptyBag

\* C16: a draw returns no card exactly when deck and discard pile are both empty,
\* and then changes nothing; otherwise it takes exactly one card out of deck and
\* discard pile together and the drawing player's hand grows by that card alone.
C16_DrawOneCardOrNone ==
    \A p \in Players : \A d \in draw_card_for_player(Eng, p) :
        /\ (d.card = None) <=> (BagSize(deck) = 0 /\ BagSize(discard_pile) = 0)
        /\ d.card = None => d.st = Eng
        /\ d.card # None
               => /\ d.st.hand = [hand EXCEPT ![p] = BagAdd(hand[p], d.card)]
                  /\ BagSize(d.st.deck) + BagSize(d.st.discard_pile)
                         = BagSize(deck) + BagSize(discard_pile) - 1
                  /\ BagAdd(d.st.deck, d.card) = (IF BagSize(deck) > 0 THEN deck ELSE discard_pile)

\* Deck and discard pile are both empty and a draw returns no card.
C16_Witness ==
    /\ BagSize(deck) = 0 /\ BagSize(discard_pile) = 0
    /\ \E p \in Players : \E d \in draw_card_for_player(Eng, p) : d.card = None

\* C17: in phase DISCARD with the current player's hand over the hand limit,
\* advance_turn changes nothing; it moves DISCARD to NEXT_TURN only with the hand
\* within the limit, and no state in NEXT_TURN has the current player over the limit.
C17_DiscardHoldsOverLimit ==
    /\ game_state = "DISCARD" =>
           \A s2 \in advance_turn(Eng) :
               /\ BagSize(hand[current_player_index]) > HandLimit => s2 = Eng
               /\ s2.game_state = "NEXT_TURN"
                      => BagSize(hand[current_player_index]) <= HandLimit
               /\ BagSize(hand[current_player_index]) <= HandLimit
                      => s2.game_state \in {"NEXT_TURN", "GAME_OVER"}
    /\ game_state = "NEXT_TURN" => BagSize(hand[current_player_index]) <= HandLimit

\* The phase is DISCARD and the current player holds more cards than the limit.
C17_Witness ==
    /\ game_state = "DISCARD" /\ BagSize(hand[current_player_index]) > HandLimit
    /\ \A s2 \in advance_turn(Eng) : s2.game_state = "DISCARD"

TurnDistance(st, q) ==
    LET n == Cardinality(players_of(st))
        d == (turn_direction * (q - st.current_player_index)) % n
    IN  IF d = 0 THEN n ELSE d

\* C18: whenever advance_turn makes the phase DRAW out of NEXT_TURN (the game is
\* not over), the current player is not eliminated, for every number of players,
\* every set of eliminated players and every set of skip flags.
C18_RotationSkipsEliminated ==
    game_state = "NEXT_TURN" =>
        \A s2 \in advance_turn(Eng) :
            s2.game_state = "DRAW" => ~is_eliminated(s2.status, s2.current_player_index)

\* The events _next_player appended on the way from Eng to s2.
AppendedEvents(s2) == SubSeq(s2.game_events, Len(game_events) + 1, Len(s2.game_events))

\* C19: a player who is not eliminated and whose skip flag is set when the rotation
\* reaches them does not become the current player on that rotation, has the flag
\* cleared and gets exactly one turn_skipped event; a player who is not eliminated,
\* whose flag is not set and who is next in turn order takes the turn.
C19_SkipFlagPassesOverOnce ==
    game_state = "NEXT_TURN" =>
        \A s2 \in advance_turn(Eng) :
            /\ \A q \in players_of(Eng) :
                   (/\ ~is_eliminated(status, q) /\ skip_next_turn[q]
                    /\ TurnDistance(Eng, q) <= TurnDistance(Eng, s2.current_player_index))
                       => /\ s2.current_player_index # q
                          /\ ~s2.skip_next_turn[q]
                          /\ Cardinality({i \in DOMAIN AppendedEvents(s2) :
                                 AppendedEvents(s2)[i] =
                                     GameEvent("turn_skipped", name(q), None)}) = 1
            /\ \A q \in players_of(Eng) :
                   (/\ ~is_eliminated(status, q) /\ ~skip_next_turn[q]
                    /\ \A r \in players_of(Eng) :
                           TurnDistance(Eng, r) < TurnDistance(Eng, q)
                               => is_eliminated(status, r))
                       => s2.current_player_index = q

\* The phase changes the turn flow allows.
PhaseEdges ==
    {<<"SETUP", "DRAW">>, <<"DRAW", "PLAY">>, <<"PLAY", "DEFEND">>, <<"PLAY", "DISCARD">>,
     <<"DEFEND", "DISCARD">>, <<"DISCARD", "NEXT_TURN">>, <<"NEXT_TURN", "DRAW">>}
    \cup {<<phase, "GAME_OVER">> : phase \in GameState}

\* C21: every change of the phase follows one of the edges Setup-Draw, Draw-Play,
\* Play-Defend, Play-Discard, Defend-Discard, Discard-NextTurn, NextTurn-Draw or
\* leads to GameOver, and Defend is entered only from Play with an attack pending
\* against a player who holds a Defense card.
C21_PhaseEdges ==
    [][/\ game_state' # game_state => <<game_state, game_state'>> \in PhaseEdges
       /\ (game_state' = "DEFEND" /\ game_state # "DEFEND")
              => /\ game_state = "PLAY"
                 /\ current_attack' # NoAttack
                 /\ get_cards_by_type(hand', current_attack'.target_player, "Defense") # {}]_vars

\* The states the effects of card c from the i-th on lead to from st when they are
\* applied one after the other and the i-th, (i+1)-th, ... yield results[i], ...
RECURSIVE EffectChainEnds(_, _, _, _, _, _, _)
EffectChainEnds(st, results, i, c, p, tp, to) ==
    IF i > Len(Catalog[c].effects) THEN {st}
    ELSE UNION {EffectChainEnds(x.st, results, i + 1, c, p, tp, to)
                : x \in {y \in process_single_effect(st, Catalog[c].effects[i], c, p, tp, to)
                            : y.result = results[i]}}

\* The effects the code has no resolver for, or only one that refuses.
FailingActions == {"steal_organ", "heal_organ"}

\* C22: processing the effect list of a card (each card of the fourth game, for
\* every acting player, target player and target organ) yields one result per effect, in the
\* order of the effects; an effect that fails yields a failure result, and every
\* effect, those after a failed one included, is applied to the state the effects
\* before it left, with the outcome it has on its own.
C22_OneResultPerEffect ==
    \A c \in EffectCards, p \in Players, tp \in PlayerArgs, to \in OrganArgs :
        \A o \in process_card_effects(Eng, c, p, tp, to) :
            /\ Len(o.results) = Len(Catalog[c].effects)
            /\ \A i \in DOMAIN o.results :
                   /\ Catalog[c].effects[i].action \in FailingActions => ~o.results[i].success
                   /\ o.results[i].success => o.results[i].action = Catalog[c].effects[i].action
            /\ o.st \in EffectChainEnds(Eng, o.results, 1, c, p, tp, to)

\* A player holds Experimental Surgery in PLAY; with a target its first effect
\* (steal_organ) fails and its later effects remove the organ and set the skip flag.
C22_Witness ==
    /\ game_state = "PLAY"
    /\ \E p, tp \in Players, to \in OrganType :
           /\ hand[p]["action_005"] > 0
           /\ \E o \in process_card_effects(Eng, "action_005", p, tp, to) :
                  /\ ~o.results[1].success
                  /\ o.results[2].success /\ ~has_organ(o.st.organs, tp, to)
                  /\ o.results[3].success /\ o.st.skip_next_turn[tp] /\ ~skip_next_turn[tp]

\* C23: loading a file that save_game wrote restores the saved snapshot: after the
\* load every player's organs (removed, protected, protection source), hand, status
\* and skip flag, the current player index, the phase, the turn direction, the turn
\* counter and the event log are the saved ones.
C23_SaveLoadRoundTrip ==
    \A file \in SavedGames :
        LET o == load_game(Eng, file)
            saved == file.game_data
            restored == save_game(o.st)
        IN  /\ o.ret
            /\ restored.players = saved.players
            /\ restored.current_player_index = saved.current_player_index
            /\ restored.game_state = saved.game_state
            /\ restored.turn_direction = saved.turn_direction
            /\ restored.turn_count = saved.turn_count
            /\ restored.game_events = saved.game_events

\* C24: a load_game call that returns False leaves the engine as it was (current
\* player index, phase, turn counter and every other field), for a missing file and
\* for files that pass the validation but lack a later field or name an unknown phase.
C24_FailedLoadChangesNothing ==
    \A file \in SaveFiles :
        LET o == load_game(Eng, file) IN ~o.ret => o.st = Eng

\* C25: across every operation of the engine the event log before the operation is
\* a prefix of the log after it: no recorded event is removed, reordered or altered.
C25_EventLogAppendOnly ==
    [][/\ Len(game_events') >= Len(game_events)
       /\ SubSeq(game_events', 1, Len(game_events)) = game_events]_vars

\* The log has grown by a played card since the game started.
C25_Witness ==
    /\ Len(game_events) >= 2
    /\ game_events[1].event_type = "game_start"
    /\ \E i \in 2..Len(game_events) : game_events[i].event_type = "card_played"

\* The draw_cards effects of the catalog.
DrawEffects ==
    {e \in UNION {{Catalog[c].effects[i] : i \in DOMAIN Catalog[c].effects} : c \in CardIds}
        : e.action = "draw_cards"}

\* C26: a draw_cards effect of value v draws min(v, cards in deck and discard pile)
\* cards into the acting player's hand, reports success, and the count of its
\* result is the number of cards drawn.
C26_DrawCardsEffect ==
    \A e \in DrawEffects, p \in Players :
        \A o \in draw_cards_effect(Eng, e, p) :
            LET available == BagSize(deck) + BagSize(discard_pile)
                wanted == IF e.value = 0 THEN 1 ELSE e.value
                drawn == BagSize(o.st.hand[p]) - BagSize(hand[p])
            IN  /\ o.result.success
                /\ drawn = (IF wanted <= available THEN wanted ELSE available)
                /\ BagSize(o.st.deck) + BagSize(o.st.discard_pile) = available - drawn
                /\ \A q \in Players \ {p} : o.st.hand[q] = hand[q]
                /\ o.result.count = drawn

\* C27: a test_luck effect destroys the target exactly on tails: on tails with a
\* target player and organ given, the organ is removed (the player is eliminated
\* when it was the last one) and nothing else changes; on heads nothing changes.
C27_CoinFlipDestroysOnTails ==
    \A p \in Players, tp \in PlayerArgs, to \in OrganArgs :
        LET outcomes == test_luck_effect(Eng, Effect("test_luck", None, 0), p, tp, to) IN
        /\ {o.result.coin : o \in outcomes} = {"heads", "tails"}
        /\ \A o \in outcomes :
               /\ o.result.success
               /\ o.result.coin = "heads" => o.st = Eng
               /\ (o.result.coin = "tails" /\ tp # NoPlayer /\ to # None)
                      => /\ ~has_organ(o.st.organs, tp, to)
                         /\ o.result.organ_destroyed = has_organ(organs, tp, to)
                         /\ has_organ(organs, tp, to)
                                => /\ o.st.organs =
                                          [organs EXCEPT ![tp][to].is_removed = TRUE]
                                   /\ is_eliminated(o.st.status, tp)
                                          = (is_eliminated(status, tp)
                                             \/ get_available_organs(organs, tp) = {to})
                         /\ ~has_organ(organs, tp, to) => o.st = Eng
                         /\ \A q \in Players \ {tp} : o.st.status[q] = status[q]
                         /\ o.st.hand = hand /\ o.st.deck = deck
                         /\ o.st.discard_pile = discard_pile
                         /\ o.st.game_state = game_state

\* In PLAY a player holds Test Your Luck and the coin's tails side destroys an organ
\* that heads leaves in place.
C27_Witness ==
    /\ game_state = "PLAY"
    /\ \E p, tp \in Players, to \in OrganType :
           /\ hand[p]["wildcard_001"] > 0
           /\ has_organ(organs, tp, to)
           /\ \E o \in test_luck_effect(Eng, Effect("test_luck", None, 0), p, tp, to) :
                  o.result.coin = "tails" /\ ~has_organ(o.st.organs, tp, to)
           /\ \E o \in test_luck_effect(Eng, Effect("test_luck", None, 0), p, tp, to) :
                  o.result.coin = "heads" /\ has_organ(o.st.organs, tp, to)

\* The protect_organ effects of the catalog, each with a card that carries it.
ProtectEffects ==
    {pe \in UNION {{[card |-> c, effect |-> Catalog[c].effects[i]]
                    : i \in DOMAIN Catalog[c].effects} : c \in CardIds}
        : pe.effect.action = "protect_organ"}

\* C28: a protect_organ effect applies to the target player given or else to the
\* acting player, and to the organ given by the play or else the organ of the
\* effect.  It fails and changes nothing when there is no such organ, when the
\* player does not hold the organ (absent or removed) or when the organ cannot be
\* protected; otherwise it succeeds and sets the organ's protected flag and its
\* protection source, and nothing else.
C28_ProtectOrganEffect ==
    \A pe \in ProtectEffects, p \in Players, tp \in PlayerArgs, to \in OrganArgs :
        \A o \in protect_organ_effect(Eng, pe.effect, p, tp, to, pe.card) :
            LET target == IF tp # NoPlayer THEN tp ELSE p
                organ_type == IF to # None THEN to ELSE pe.effect.target_organ
                applies == /\ organ_type # None
                           /\ organs[target][organ_type].owned
                           /\ ~organs[target][organ_type].is_removed
                           /\ organs[target][organ_type].can_be_protected
            IN  /\ o.result.success = applies
                /\ ~applies => o.st = Eng
                /\ applies =>
                       /\ o.st.organs[target][organ_type].is_protected
                       /\ o.st.organs[target][organ_type].protection_source # None
                       /\ \E source \in {"Vaccination", "Protected by " \o name(p)} :
                              o.st = [Eng EXCEPT
                                         !.organs[target][organ_type].is_protected = TRUE,
                                         !.organs[target][organ_type].protection_source = source]

\* In PLAY a player holds Placebo; its protect_organ effect protects the organ of
\* the target player given, and fails for an organ that player does not hold.
C28_Witness ==
    /\ game_state = "PLAY"
    /\ \E p, tp \in Players, to, absent \in OrganType :
           /\ hand[p]["action_006"] > 0 /\ tp # p
           /\ ~is_organ_protected(organs, tp, to)
           /\ \E o \in protect_organ_effect(Eng, Catalog["action_006"].effects[2],
                                            p, tp, to, "action_006") :
                  o.result.success /\ is_organ_protected(o.st.organs, tp, to)
           /\ \E o \in protect_organ_effect(Eng, Catalog["action_006"].effects[2],
                                            p, tp, absent, "action_006") :
                  ~o.result.success

\* The player and organ state an effect may change: organs, status, skip flags, hands.
PlayerState(st) ==
    [organs |-> st.organs, status |-> st.status,
     skip_next_turn |-> st.skip_next_turn, hand |-> st.hand]

\* Every effect of the catalog with a card that carries it, and one more effect
\* whose action tag the code does not know, carried by the same cards.
AllEffects ==
    UNION {{[card |-> c, effect |-> Catalog[c].effects[i]]
            : i \in DOMAIN Catalog[c].effects} : c \in CardIds}
    \cup {[card |-> c, effect |-> Effect("revive_organ", None, 0)] : c \in EffectCards}

\* C30: an effect whose result has success = false changes no organ flag, no player
\* status, no skip flag and no hand: remove_organ without a target or on an organ
\* that is absent, removed or protected, protect_organ that cannot be applied,
\* steal_organ, skip_turn without a target and unknown action tags.
C30_FailedEffectChangesNothing ==
    \A ce \in AllEffects, p \in Players, tp \in PlayerArgs, to \in OrganArgs :
        \A o \in process_single_effect(Eng, ce.effect, ce.card, p, tp, to) :
            ~o.result.success => PlayerState(o.st) = PlayerState(Eng)

\* A player's organ is protected and another's is removed: a remove_organ effect on
\* either fails, as do steal_organ, skip_turn without a target and an unknown tag.
C30_Witness ==
    \E p, tp \in Players, to, gone \in OrganType :
        /\ is_organ_protected(organs, tp, to)
        /\ organs[p][gone].owned /\ organs[p][gone].is_removed
        /\ \A o \in remove_organ_effect(Eng, Effect("remove_organ", to, 0), p, tp, to) :
               ~o.result.success
        /\ \A o \in remove_organ_effect(Eng, Effect("remove_organ", gone, 0), tp, p, gone) :
               ~o.result.success
        /\ \A o \in process_single_effect(Eng, Catalog["action_005"].effects[1],
                                          "action_005", p, tp, to) : ~o.result.success
        /\ \A o \in process_single_effect(Eng, Catalog["action_006"].effects[1],
                                          "action_006", p, tp, to) : ~o.result.success
        /\ \A o \in skip_turn_effect(Eng, Effect("skip_turn", None, 0), NoPlayer) :
               ~o.result.success

\* The played-card events of the log that name the card Vaccination.
VaccinationPlays ==
    {i \in DOMAIN game_events :
        /\ game_events[i].event_type = "card_played"
        /\ game_events[i].card_played = "Vaccination"}

\* C29: protection whose source is Vaccination has expired once the next full round
\* has started.  When it is the turn of player q, q has played no card since q's
\* last turn ended, every play of Vaccination was made by q, no turn was skipped
\* and no player is eliminated, then every player's turn has come round since
\* Vaccination was last played, and no organ is protected by Vaccination any more.
C29_VaccinationExpires ==
    \A q \in Players :
        (/\ current_player_index = q
         /\ cards_played_this_turn[q] = 0
         /\ turn_count >= NumPlayers
         /\ \A i \in VaccinationPlays : game_events[i].player_name = name(q)
         /\ \A i \in DOMAIN game_events : game_events[i].event_type # "turn_skipped"
         /\ \A p \in Players : ~is_eliminated(status, p))
            => \A p \in Players, o \in OrganType :
                   ~(organs[p][o].is_protected
                     /\ organs[p][o].protection_source = "Vaccination")

\* C31: across every operation each player's set of organ types stays the one dealt
\* at setup, an organ that is removed stays removed, and a player who is
\* eliminated stays eliminated.
C31_OrgansAndStatusMonotone ==
    [][\A p \in Players, o \in OrganType :
           /\ organs'[p][o].owned = organs[p][o].owned
           /\ organs[p][o].is_removed => organs'[p][o].is_removed
           /\ is_eliminated(status, p) => is_eliminated(status', p)]_vars

\* A player has lost an organ and is eliminated, and operations have followed: the
\* game has been declared over.
C31_Witness ==
    /\ game_state = "GAME_OVER"
    /\ \E p \in Players, o \in OrganType :
           organs[p][o].owned /\ organs[p][o].is_removed /\ is_eliminated(status, p)

\* C32: no card play takes an organ that is present and protected to removed: across
\* every step, an organ a player holds protected is not removed after the step.
C32_ProtectedOrganSurvivesPlays ==
    [][\A p \in Players, o \in OrganType :
           (has_organ(organs, p, o) /\ organs[p][o].is_protected)
               => ~organs'[p][o].is_removed]_vars

\* C33: in DEFEND a Defense card played by a player other than the target of the
\* pending attack (the attacker included) blocks nothing: the attack is still
\* pending after the play and the phase is still DEFEND.
C33_OnlyTargetBlocks ==
    \A p \in Players, c \in CardArgs, tp \in PlayerArgs, to \in OrganArgs :
        (DefensePlayed(p, c, tp, to) /\ p # current_attack.target_player)
            => \A o \in play_card(Eng, p, c, tp, to) :
                   /\ o.st.current_attack = current_attack
                   /\ o.st.pending_defense
                   /\ o.st.game_state = "DEFEND"

\* C34: in phase PLAY a play_card call whose acting player is not the current player,
\* or is eliminated, is rejected, for every card, target player and target organ.
C34_OnlyCurrentPlayerPlays ==
    \A p \in Players, c \in CardArgs, tp \in PlayerArgs, to \in OrganArgs :
        (game_state = "PLAY" /\ (p # current_player_index \/ is_eliminated(status, p)))
            => \A o \in play_card(Eng, p, c, tp, to) : ~o.ret.success

\* C36: in every reachable state whose phase is DRAW every player's hand holds at
\* most as many cards as the hand limit.
C36_HandCapAtDraw ==
    game_state = "DRAW" => \A p \in Players : BagSize(hand[p]) <= HandLimit

\* The reasons can_play_card gives for rejecting a card because of the hand or the phase.
PhaseReasons ==
    {"Card not in hand", "Can only play defense cards during defend phase",
     "Cannot play cards during this phase"}

C37_CountersFreshAtTurnStart ==
    game_state = "NEXT_TURN" =>
        \A s2 \in advance_turn(Eng) :
            s2.game_state = "DRAW"
                => /\ s2.cards_drawn_this_turn[s2.current_player_index] = 0
                   /\ s2.cards_played_this_turn[s2.current_player_index] = 0

\* The places of the event log that hold a game_end event.
GameEndEvents == {i \in DOMAIN game_events : game_events[i].event_type = "game_end"}

\* C40: in every reachable state the event log holds at most one game_end event.
C40_GameEndLoggedOnce == Cardinality(GameEndEvents) <= 1

\* The states that advance_turn, skip_defense, the play of a Defense card or
\* force_discard make of the current one, the current one left out.
TurnFlowMoves ==
    {s2 \in advance_turn(Eng) : s2 # Eng}
    \cup {o.st : o \in {x \in skip_defense(Eng) : x.st # Eng}}
    \cup UNION {{o.st : o \in {x \in play_card(Eng, p, c, NoPlayer, None) : x.st # Eng}}
                : p \in Players, c \in {x \in CardIds : Catalog[x].type = "Defense"}}
    \cup {s2 \in {force_discard(Eng, p, <<c>>).st : p \in Players, c \in CardIds} : s2 # Eng}

\* C38: in every reachable state whose phase is not GAME_OVER at least one of
\* advance_turn, skip_defense, the play of a Defense card and force_discard changes
\* the state; and in DEFEND with a defense pending, skipping it and every accepted
\* play of a Defense card lead to phase DISCARD.
C38_NeverStuck ==
    /\ game_state # "GAME_OVER" => TurnFlowMoves # {}
    /\ (game_state = "DEFEND" /\ pending_defense) =>
           /\ \A o \in skip_defense(Eng) : o.st.game_state = "DISCARD"
           /\ \A p \in Players, c \in CardIds :
                  (Catalog[c].type = "Defense"
                   /\ can_play_card(Eng, p, c, NoPlayer, None) = "Valid")
                      => \A o \in play_card(Eng, p, c, NoPlayer, None) :
                             o.st.game_state = "DISCARD"

\* The players who become the current player in k consecutive rotations from st.
RECURSIVE TurnsWithin(_, _)
TurnsWithin(st, k) ==
    IF k = 0 THEN {}
    ELSE LET s1 == next_player(st) IN {s1.current_player_index} \cup TurnsWithin(s1, k - 1)

\* C39: whenever advance_turn makes the phase DRAW out of NEXT_TURN (the game is not
\* over), every player who is not eliminated and whose skip flag is not set becomes
\* the current player within as many rotations as there are players; the player
\* the rotation stops at is not eliminated and had no skip flag set, and every
\* player before that one in turn order was eliminated or had the flag set.
C39_RotationFair ==
    game_state = "NEXT_TURN" =>
        \A s2 \in advance_turn(Eng) :
            s2.game_state = "DRAW" =>
                /\ \A q \in players_of(Eng) :
                       (~is_eliminated(status, q) /\ ~skip_next_turn[q])
                           => q \in TurnsWithin(Eng, Cardinality(players_of(Eng)))
                /\ ~is_eliminated(status, s2.current_player_index)
                /\ ~skip_next_turn[s2.current_player_index]
                /\ \A r \in players_of(Eng) :
                       TurnDistance(Eng, r) < TurnDistance(Eng, s2.current_player_index)
                           => (is_eliminated(status, r) \/ skip_next_turn[r])

====
